---------------------------- MODULE Spec2Model ----------------------------
(***************************************************************************)
(* State-machine model of the STEAM code-editor web client                 *)
(* (steam-web/frontend/app.js, class SteamApp).                            *)
(*                                                                         *)
(* The browser is single threaded: every action below is one event         *)
(* handler (transport event, timer, user gesture) run to completion.       *)
(* The server, the network and the user are the environment; their         *)
(* choices are drawn from the small sets defined first.                    *)
(*                                                                         *)
(* JavaScript values are represented as follows.                           *)
(*   - a path string is the sequence of its '/'-separated segments, i.e.   *)
(*     exactly path.split('/'): '/workspaces' is <<"", "workspaces">>;     *)
(*     null (for currentFile) is <<>>, which is the split of no string;    *)
(*   - chat text and session identifiers are sequences of characters;      *)
(*     a null session identifier is <<>> (the server never assigns '');    *)
(*   - file contents, commands and command identifiers are opaque strings; *)
(*   - this.files is a function whose DOMAIN is the set of keys present.   *)
(***************************************************************************)
EXTENDS Naturals, Sequences, FiniteSets

\* ------------------------------------------------------------------ bounds

\* Number of WebSocket objects that may exist at the same time.
MaxSockets == 2
\* Number of entries the chat panel may hold before the environment stops
\* producing events that append to it.
MaxTranscript == 2

\* ----------------------------------------------------------- environment

Sockets == 1..MaxSockets

\* The part of the user interface the user and the server exercise in a run.
\* Transport events, the reconnect timer, the clear button and messages of
\* an unknown type are live in every scope; messages that lack a required
\* member arrive in the "approval" scope.
Scopes == {"chat", "tree", "editor", "approval"}

WORKSPACES == <<"", "workspaces">>
DirA == <<"", "workspaces", "a">>
FileF == <<"", "workspaces", "f.py">>
FileG == <<"", "workspaces", "g.py">>
\* A file whose name holds the character the tab uses as its modified mark.
FileS == <<"", "workspaces", "s**">>
Welcome == <<"welcome">>
NoFile == <<>>

\* Entries a file_list payload may carry.
EntA == [name |-> "a", is_directory |-> TRUE, path |-> DirA]
EntF == [name |-> "f.py", is_directory |-> FALSE, path |-> FileF]
EntG == [name |-> "g.py", is_directory |-> FALSE, path |-> FileG]
Listings == { <<>>, <<EntF, EntA>>, <<EntG, EntF>> }

\* Collation order of the entry names (String.prototype.localeCompare).
NameOrder == <<"a", "f.py", "g.py">>

\* Text the server may put in user_message / ai_response / error.
ChatTexts == { <<"h">>, <<"*", "h", "*">> }
ErrorTexts == { <<"e">> }
\* Text the user may have in the chat input box.
InputTexts == { <<>>, <<" ", " ">>, <<" ", "h">> }

NoSession == <<>>
SessionIds == { <<"a", "b", "c", "d", "e", "f", "g", "h", "i">>, <<"s", "2">> }

\* File contents the server may send, and contents the user may type.
ServerContents == {"x", "y"}
EditedContents == {"", "z"}
WelcomeContent == "# Welcome to STEAM"
\* What prompt('Enter filename:') may return (null on cancel).
PromptNull == "<null>"
FilenameAnswers == {PromptNull, "", "s**"}
FilePaths == {FileF, FileS}

Undefined == "<undefined>"

\* Marketplace: requests that may await their response at the same time.
MaxRequests == 2
\* null, for currentUser and for currentContent.
NoUser == <<>>
NoContent == <<>>
\* Contents the server may describe, and balances it may report at login.
Catalog == { [content_id |-> "c0", pricing_model |-> "free", token_price |-> 0],
             [content_id |-> "c2", pricing_model |-> "paid", token_price |-> 2],
             [content_id |-> "c3", pricing_model |-> "paid", token_price |-> 3] }
LoginBalances == {1, 4}
Commands == {"rm -rf /tmp/x", "ls"}
CommandIds == {"c1", "c2"}
\* What prompt('Modify command:', ...) may return.
ModifyAnswers == {PromptNull, "", "ls -l"}

\* --------------------------------------------------------------- state

VARIABLES
    scope,            \* environment: the part of the UI exercised
    readyState,       \* WebSocket.readyState of each socket object ("FREE": none)
    websocket,        \* this.websocket
    isConnected,      \* this.isConnected
    timers,           \* pending setTimeout reconnect callbacks
    closeEvent,       \* socket whose close event follows its error event, or 0
    sessionId,        \* this.sessionId
    sessionIdText,    \* elements.sessionId.textContent
    connectionStatus, \* elements.connectionStatus
    loading,          \* elements.loadingOverlay is displayed
    transcript,       \* chatMessages children .message:not(.welcome-message)
    messageCount,     \* elements.messageCount.textContent
    typing,           \* elements.typingIndicator is displayed
    chatInput,        \* elements.chatInput.value
    fileTreePath,     \* path the file tree was rendered for (NoFile: empty)
    fileTreeItems,    \* entries rendered in the file tree, in order
    requested,        \* path of the last directory-list request transmitted
    inflight,         \* per socket: list requests the server has not answered
    editor,           \* this.editor is set (Monaco has loaded)
    editorValue,      \* content of the editor's current model
    currentFile,      \* this.currentFile
    files,            \* this.files
    fileTab,          \* the one non-welcome tab, or NoTab
    welcomeActive,    \* the welcome tab carries class "active"
    approvalModal,    \* elements.approvalModal is displayed
    commandPreview,   \* elements.commandPreview.textContent
    currentCommandId, \* this.currentCommandId
    sent,             \* frames passed to websocket.send() by the last handler
    console,          \* console output of the last handler
    last,             \* the last event handled, with its inputs
    currentUser,      \* marketplace: currentUser (<<>>: null)
    currentContent,   \* marketplace: currentContent (<<>>: null)
    requests,         \* marketplace: apiCall requests awaiting their response
    modals,           \* marketplace: modals that carry class "show"
    loadingOverlay,   \* marketplace: the loading overlay carries class "show"
    tokenCount,       \* marketplace: text of the tokenCount element
    notice            \* marketplace: title of the last notification shown

connVars == <<readyState, websocket, isConnected, timers, closeEvent,
              connectionStatus, loading>>
sessionVars == <<sessionId, sessionIdText>>
chatVars == <<transcript, messageCount, typing, chatInput>>
treeVars == <<fileTreePath, fileTreeItems>>
editorVars == <<editor, editorValue, currentFile, files, fileTab, welcomeActive>>
approvalVars == <<approvalModal, commandPreview, currentCommandId>>
marketVars == <<currentUser, currentContent, requests, modals, loadingOverlay,
                tokenCount, notice>>

vars == <<scope, readyState, websocket, isConnected, timers, closeEvent,
          sessionId, sessionIdText, connectionStatus, loading,
          transcript, messageCount, typing, chatInput,
          fileTreePath, fileTreeItems, requested, inflight,
          editor, editorValue, currentFile, files, fileTab, welcomeActive,
          approvalModal, commandPreview, currentCommandId,
          sent, console, last,
          marketVars>>

\* A tab is its data-file attribute, the text of its .tab-name span and its
\* active class. The text is kept split at its '*' characters.
NoTab == [file |-> NoFile, name |-> <<>>, active |-> FALSE]

\* ------------------------------------------------------- pure helpers

Min(a, b) == IF a < b THEN a ELSE b

\* s.substring(0, n)
Substring0(s, n) == SubSeq(s, 1, Min(n, Len(s)))

\* filePath.split('/').pop()
LastSegment(p) == IF p = <<>> THEN "" ELSE p[Len(p)]

\* The text of a file name split at its '*' characters, each '*' an element
\* of its own. Of the names that occur, only the name of FileS holds any.
StarSplit(name) == IF name = "s**" THEN <<"s", "*", "*">> ELSE <<name>>

\* textContent.endsWith('*')
EndsWithStar(text) == text # <<>> /\ text[Len(text)] = "*"

\* textContent.replace('*', ''): the first '*' is removed.
RECURSIVE RemoveFirstStar(_)
RemoveFirstStar(text) ==
    IF text = <<>> THEN <<>>
    ELSE IF Head(text) = "*" THEN Tail(text)
    ELSE <<Head(text)>> \o RemoveFirstStar(Tail(text))

\* The modified indicator of a tab: its name ends with '*'.
Modified(tab) == EndsWithStar(tab.name)

\* path.split('/').slice(0, -1).join('/') || '/workspaces'
\* (the join of <<>> and of <<"">> is the empty string, which is falsy)
ParentPath(p) ==
    LET cut == IF Len(p) = 0 THEN <<>> ELSE SubSeq(p, 1, Len(p) - 1)
    IN  IF cut = <<>> \/ cut = <<"">> THEN WORKSPACES ELSE cut

\* the template literal /workspaces/${filename}
NewFilePath(filename) == WORKSPACES \o <<filename>>


\* --------------------------------------------------- formatMessage

WordChars == {"h"}

HasAt(s, i, d) == i + Len(d) - 1 <= Len(s) /\ SubSeq(s, i, i + Len(d) - 1) = d

\* Positions where the closing delimiter d of a lazy group opened at i may
\* stand: the group holds at least minLen characters, none of them in excl.
Closers(s, i, d, minLen, excl) ==
    { j \in (i + Len(d) + minLen)..Len(s) :
        /\ HasAt(s, j, d)
        /\ \A k \in (i + Len(d))..(j - 1) : s[k] \notin excl }

SetMin(S) == CHOOSE x \in S : \A y \in S : x <= y

\* content.replace(/<d>(group)<d>/g, open + '$1' + close), scanning from i.
RECURSIVE ReplaceDelimited(_, _, _, _, _, _, _)
ReplaceDelimited(s, i, d, minLen, excl, open, close) ==
    IF i > Len(s) THEN <<>>
    ELSE IF HasAt(s, i, d) /\ Closers(s, i, d, minLen, excl) # {}
         THEN LET j == SetMin(Closers(s, i, d, minLen, excl))
              IN  <<open>> \o SubSeq(s, i + Len(d), j - 1) \o <<close>>
                  \o ReplaceDelimited(s, j + Len(d), d, minLen, excl, open, close)
         ELSE <<s[i]>> \o ReplaceDelimited(s, i + 1, d, minLen, excl, open, close)

\* The character U+0060 (grave accent) is written "BQ".
BQ == "BQ"
Fence == <<BQ, BQ, BQ>>

\* First position at or after i that holds no word character.
RECURSIVE SkipWord(_, _)
SkipWord(s, i) ==
    IF i <= Len(s) /\ s[i] \in WordChars THEN SkipWord(s, i + 1) ELSE i

\* content.replace(/BQBQBQ(\w+)?\n([\s\S]*?)BQBQBQ/g, '<pre><code>$2</code></pre>')
RECURSIVE ReplaceFences(_, _)
ReplaceFences(s, i) ==
    IF i > Len(s) THEN <<>>
    ELSE LET k == SkipWord(s, i + 3)
             ends == { j \in (k + 1)..Len(s) : HasAt(s, j, Fence) }
         IN  IF HasAt(s, i, Fence) /\ k <= Len(s) /\ s[k] = "\n" /\ ends # {}
             THEN <<"<pre><code>">> \o SubSeq(s, k + 1, SetMin(ends) - 1)
                  \o <<"</code></pre>">> \o ReplaceFences(s, SetMin(ends) + 3)
             ELSE <<s[i]>> \o ReplaceFences(s, i + 1)

\* content.replace(/\n/g, '<br>')
ReplaceNewlines(s) == [i \in 1..Len(s) |-> IF s[i] = "\n" THEN "<br>" ELSE s[i]]

formatMessage(content) ==
    LET c1 == ReplaceFences(content, 1)
        c2 == ReplaceDelimited(c1, 1, <<BQ>>, 1, {BQ}, "<code>", "</code>")
        c3 == ReplaceDelimited(c2, 1, <<"*", "*">>, 0, {"\n"}, "<strong>", "</strong>")
        c4 == ReplaceDelimited(c3, 1, <<"*">>, 0, {"\n"}, "<em>", "</em>")
    IN  ReplaceNewlines(c4)

\* ------------------------------------------------------- transcript

\* Variant: the new element is inserted before the existing ones.
addMessage_Prepend(t, content, role) ==
    <<[role |-> role, text |-> formatMessage(content)]>> \o t

\* addMessage appends one .message element of class role.
addMessage(t, content, role) ==
    Append(t, [role |-> role, text |-> formatMessage(content)])

\* addErrorMessage appends one .message.error element with the raw content.
addErrorMessage(t, content) ==
    Append(t, [role |-> "error", text |-> content])

\* updateMessageCount: querySelectorAll('.message:not(.welcome-message)').length
updateMessageCount(t) == Len(t)

ConnectionErrorText == <<"Connection error. Retrying...">>
FileSavedText(path) == <<"File saved: ">> \o path

\* ---------------------------------------------------------- file tree

Rank(name) == CHOOSE i \in 1..Len(NameOrder) : NameOrder[i] = name

\* The comparator of files.sort returns a negative number.
SortsBefore(a, b) ==
    IF a.is_directory # b.is_directory
    THEN a.is_directory
    ELSE Rank(a.name) < Rank(b.name)

RECURSIVE InsertSorted(_, _)
InsertSorted(sorted, e) ==
    IF sorted = <<>> THEN <<e>>
    ELSE IF SortsBefore(e, Head(sorted))
         THEN <<e>> \o sorted
         ELSE <<Head(sorted)>> \o InsertSorted(Tail(sorted), e)

\* files.sort(...) (stable)
RECURSIVE SortFiles(_)
SortFiles(fs) ==
    IF fs = <<>> THEN <<>>
    ELSE InsertSorted(SortFiles(SubSeq(fs, 1, Len(fs) - 1)), fs[Len(fs)])

\* ----------------------------------------------------------- outbound

\* Variant: the frame is handed to the socket whatever its readyState.
sendWebSocketMessage_Unchecked(ws, rs, sid, type, data) ==
    << [sock |-> ws, type |-> type, data |-> data, session_id |-> sid] >>

\* sendWebSocketMessage: the frames handed to this.websocket.send().
sendWebSocketMessage(ws, rs, sid, type, data) ==
    IF rs[ws] = "OPEN"
    THEN << [sock |-> ws, type |-> type, data |-> data, session_id |-> sid] >>
    ELSE <<>>

\* loadFileTree(path)
loadFileTree(ws, rs, sid, path) ==
    sendWebSocketMessage(ws, rs, sid, "file_operation",
                         [operation |-> "list", path |-> path])

\* openFile(path)
openFile(ws, rs, sid, path) ==
    sendWebSocketMessage(ws, rs, sid, "file_operation",
                         [operation |-> "read", path |-> path])

IsListRequest(f) == f.type = "file_operation" /\ f.data.operation = "list"

\* The network after a handler has transmitted frames, given the requests
\* that were awaiting an answer: the directory-list requests among the frames
\* now await the server's answer; what a closed socket awaited is lost.
TransmitFrom(awaiting, frames) ==
    LET lists == { i \in 1..Len(frames) : IsListRequest(frames[i]) }
    IN  /\ sent' = frames
        /\ requested' = IF lists = {} THEN requested
                        ELSE frames[CHOOSE i \in lists : \A j \in lists : j <= i].data.path
        /\ inflight' = [s \in Sockets |->
                          IF readyState'[s] \in {"FREE", "CLOSED"} THEN {}
                          ELSE awaiting[s] \cup
                               { frames[i].data.path : i \in { j \in lists : frames[j].sock = s } }]

Transmit(frames) == TransmitFrom(inflight, frames)

\* One line of console output.
Log(level, text) == [level |-> level, text |-> text]

\* ------------------------------------------------------------- initial

\* The state once the constructor has returned: connect() has created the
\* first socket and shown the loading overlay; Monaco has not loaded yet.
Init ==
    /\ scope \in Scopes
    /\ readyState = [s \in Sockets |-> IF s = 1 THEN "CONNECTING" ELSE "FREE"]
    /\ websocket = 1
    /\ isConnected = FALSE
    /\ timers = 0
    /\ closeEvent = 0
    /\ sessionId = NoSession
    /\ sessionIdText = <<>>
    /\ connectionStatus = "initial"
    /\ loading = TRUE
    /\ transcript = <<>>
    /\ messageCount = 0
    /\ typing = FALSE
    /\ chatInput = <<>>
    /\ fileTreePath = NoFile
    /\ fileTreeItems = <<>>
    /\ requested = NoFile
    /\ inflight = [s \in Sockets |-> {}]
    /\ editor = FALSE
    /\ editorValue = ""
    /\ currentFile = NoFile
    /\ files = <<>>
    /\ fileTab = NoTab
    /\ welcomeActive = TRUE
    /\ approvalModal = FALSE
    /\ commandPreview = ""
    /\ currentCommandId = Undefined
    /\ sent = <<>>
    /\ console = <<>>
    /\ last = [op |-> "init"]
    /\ currentUser = NoUser
    /\ currentContent = NoContent
    /\ requests = <<>>
    /\ modals = {}
    /\ loadingOverlay = FALSE
    /\ tokenCount = <<>>
    /\ notice = ""

\* No handler is in the middle of the error/close pair of one socket.
Idle == closeEvent = 0

\* ----------------------------------------------------------- transport

\* A socket object nothing will happen to any more.
Reusable(s) == readyState[s] \in {"FREE", "CLOSED"} /\ closeEvent # s

\* connect(): show the overlay and create the next WebSocket.
connect ==
    /\ loading' = TRUE
    /\ \E n \in Sockets :
         /\ Reusable(n)
         /\ \A m \in Sockets : Reusable(m) => n <= m
         /\ websocket' = n
         /\ readyState' = [readyState EXCEPT ![n] = "CONNECTING"]

\* Variant: the directory listing is requested before the session is joined.
onopen_ListFirst ==
    /\ console' = <<Log("log", "WebSocket connected")>>
    /\ isConnected' = TRUE
    /\ connectionStatus' = "online"
    /\ loading' = FALSE
    /\ Transmit(loadFileTree(websocket, readyState', sessionId, WORKSPACES)
                \o sendWebSocketMessage(websocket, readyState', sessionId,
                                        "join_session", <<>>))

\* websocket.onopen
onopen ==
    /\ console' = <<Log("log", "WebSocket connected")>>
    /\ isConnected' = TRUE
    /\ connectionStatus' = "online"
    /\ loading' = FALSE
    /\ Transmit(sendWebSocketMessage(websocket, readyState', sessionId,
                                     "join_session", <<>>)
                \o loadFileTree(websocket, readyState', sessionId, WORKSPACES))

\* Variant: the close handler schedules no reconnect.
onclose_NoReconnect ==
    /\ console' = <<Log("log", "WebSocket disconnected")>>
    /\ isConnected' = FALSE
    /\ connectionStatus' = "offline"
    /\ UNCHANGED timers

\* websocket.onclose
onclose ==
    /\ console' = <<Log("log", "WebSocket disconnected")>>
    /\ isConnected' = FALSE
    /\ connectionStatus' = "offline"
    /\ timers' = timers + 1

\* Variant: the error handler schedules a reconnect of its own.
onerror_Reschedules ==
    /\ console' = <<Log("error", "WebSocket error:")>>
    /\ loading' = FALSE
    /\ transcript' = addErrorMessage(transcript, ConnectionErrorText)
    /\ timers' = timers + 1

\* websocket.onerror
onerror ==
    /\ console' = <<Log("error", "WebSocket error:")>>
    /\ loading' = FALSE
    /\ transcript' = addErrorMessage(transcript, ConnectionErrorText)
    /\ UNCHANGED timers

\* Variant: the timer callback gives up instead of connecting.
reconnect_GivesUp ==
    UNCHANGED <<websocket, readyState, loading>>

\* The callback given to setTimeout by onclose.
reconnect ==
    IF ~isConnected THEN connect
    ELSE UNCHANGED <<websocket, readyState, loading>>

\* The transport reports that socket s is open.
SocketOpen(s) ==
    /\ Idle
    /\ readyState[s] = "CONNECTING"
    /\ readyState' = [readyState EXCEPT ![s] = "OPEN"]
    /\ onopen
    /\ last' = [op |-> "open", sock |-> s]
    /\ UNCHANGED <<scope, websocket, timers, closeEvent, sessionVars, chatVars,
                   treeVars, editorVars, approvalVars>>
    /\ UNCHANGED marketVars

\* The closing handshake of socket s starts: readyState becomes CLOSING and
\* no event is delivered yet.
SocketClosing(s) ==
    /\ Idle
    /\ readyState[s] = "OPEN"
    /\ readyState' = [readyState EXCEPT ![s] = "CLOSING"]
    /\ Transmit(<<>>)
    /\ console' = <<>>
    /\ last' = [op |-> "closing", sock |-> s]
    /\ UNCHANGED <<scope, websocket, isConnected, timers, closeEvent,
                   connectionStatus, loading, sessionVars, chatVars,
                   treeVars, editorVars, approvalVars>>
    /\ UNCHANGED marketVars

\* The connection of socket s fails (refused, dropped, timed out): the
\* socket is CLOSED and its error event is delivered; its close event
\* follows in the same task.
SocketError(s) ==
    /\ Idle
    /\ readyState[s] \in {"CONNECTING", "OPEN", "CLOSING"}
    /\ Len(transcript) < MaxTranscript
    /\ readyState' = [readyState EXCEPT ![s] = "CLOSED"]
    /\ closeEvent' = s
    /\ onerror
    /\ Transmit(<<>>)
    /\ last' = [op |-> "error", sock |-> s]
    /\ UNCHANGED <<scope, websocket, isConnected, connectionStatus,
                   sessionVars, messageCount, typing, chatInput,
                   treeVars, editorVars, approvalVars>>
    /\ UNCHANGED marketVars

\* Variant: the close handler also resets the open files.
SocketClose_ResetsEditor(s) ==
    /\ \/ Idle /\ readyState[s] \in {"OPEN", "CLOSING"}
       \/ closeEvent = s
    /\ readyState' = [readyState EXCEPT ![s] = "CLOSED"]
    /\ closeEvent' = 0
    /\ onclose
    /\ Transmit(<<>>)
    /\ last' = [op |-> "close", sock |-> s, afterError |-> (closeEvent = s)]
    /\ files' = <<>>
    /\ currentFile' = NoFile
    /\ UNCHANGED <<scope, websocket, loading, sessionVars, chatVars,
                   treeVars, editor, editorValue, fileTab, welcomeActive,
                   approvalVars>>
    /\ UNCHANGED marketVars

\* The close event of socket s is delivered: after a clean closing
\* handshake, or right after the error event of a failed connection.
SocketClose(s) ==
    /\ \/ Idle /\ readyState[s] \in {"OPEN", "CLOSING"}
       \/ closeEvent = s
    /\ readyState' = [readyState EXCEPT ![s] = "CLOSED"]
    /\ closeEvent' = 0
    /\ onclose
    /\ Transmit(<<>>)
    /\ last' = [op |-> "close", sock |-> s, afterError |-> (closeEvent = s)]
    /\ UNCHANGED <<scope, websocket, loading, sessionVars, chatVars,
                   treeVars, editorVars, approvalVars>>
    /\ UNCHANGED marketVars

\* A reconnect timer expires.
ReconnectTimer ==
    /\ Idle
    /\ timers > 0
    /\ timers' = timers - 1
    /\ reconnect
    /\ Transmit(<<>>)
    /\ console' = <<>>
    /\ last' = [op |-> "timer"]
    /\ UNCHANGED <<scope, isConnected, closeEvent, connectionStatus,
                   sessionVars, chatVars, treeVars, editorVars, approvalVars>>
    /\ UNCHANGED marketVars

\* ----------------------------------------------------------- inbound
\* handleWebSocketMessage, one action per case of the switch.  A message
\* event is delivered only while the socket's readyState is OPEN.

Receives(s) == Idle /\ readyState[s] = "OPEN"

\* case 'session_joined'
RecvSessionJoined(s, sid) ==
    /\ Receives(s)
    /\ sessionId' = sid
    /\ sessionIdText' = Substring0(sid, 8) \o <<".", ".", ".">>
    /\ UNCHANGED connVars
    /\ Transmit(<<>>)
    /\ console' = <<>>
    /\ last' = [op |-> "session_joined", sock |-> s, session_id |-> sid]
    /\ UNCHANGED <<scope, chatVars, treeVars, editorVars, approvalVars>>
    /\ UNCHANGED marketVars

\* case 'user_message'
RecvUserMessage(s, m) ==
    /\ Receives(s)
    /\ scope = "chat"
    /\ Len(transcript) < MaxTranscript
    /\ transcript' = addMessage(transcript, m, "user")
    /\ UNCHANGED connVars
    /\ Transmit(<<>>)
    /\ console' = <<>>
    /\ last' = [op |-> "user_message", sock |-> s, message |-> m]
    /\ UNCHANGED <<scope, sessionVars, messageCount, typing, chatInput,
                   treeVars, editorVars, approvalVars>>
    /\ UNCHANGED marketVars

\* case 'ai_response'
RecvAiResponse(s, m) ==
    /\ Receives(s)
    /\ scope = "chat"
    /\ Len(transcript) < MaxTranscript
    /\ transcript' = addMessage(transcript, m, "assistant")
    /\ messageCount' = updateMessageCount(transcript')
    /\ UNCHANGED connVars
    /\ Transmit(<<>>)
    /\ console' = <<>>
    /\ last' = [op |-> "ai_response", sock |-> s, message |-> m]
    /\ UNCHANGED <<scope, sessionVars, typing, chatInput,
                   treeVars, editorVars, approvalVars>>
    /\ UNCHANGED marketVars

\* case 'ai_typing' (showTypingIndicator)
RecvAiTyping(s, show) ==
    /\ Receives(s)
    /\ scope = "chat"
    /\ typing' = show
    /\ UNCHANGED connVars
    /\ Transmit(<<>>)
    /\ console' = <<>>
    /\ last' = [op |-> "ai_typing", sock |-> s, typing |-> show]
    /\ UNCHANGED <<scope, sessionVars, transcript, messageCount, chatInput,
                   treeVars, editorVars, approvalVars>>
    /\ UNCHANGED marketVars

\* case 'error'
RecvError(s, m) ==
    /\ Receives(s)
    /\ scope = "chat"
    /\ Len(transcript) < MaxTranscript
    /\ transcript' = addErrorMessage(transcript, m)
    /\ UNCHANGED connVars
    /\ Transmit(<<>>)
    /\ console' = <<>>
    /\ last' = [op |-> "error_message", sock |-> s, message |-> m]
    /\ UNCHANGED <<scope, sessionVars, messageCount, typing, chatInput,
                   treeVars, editorVars, approvalVars>>
    /\ UNCHANGED marketVars

\* updateFileTree(files, path): the tree is rebuilt from the sorted payload
\* (with a '..' item first when path is not '/workspaces').
updateFileTree(fs, path) ==
    /\ fileTreePath' = path
    /\ fileTreeItems' = SortFiles(fs)

\* case 'file_list': the server answers one of the list requests it has
\* received on this socket, in any order.
RecvFileList(s, path, fs) ==
    /\ Receives(s)
    /\ scope = "tree"
    /\ path \in inflight[s]
    /\ updateFileTree(fs, path)
    /\ UNCHANGED connVars
    /\ TransmitFrom([inflight EXCEPT ![s] = @ \ {path}], <<>>)
    /\ console' = <<>>
    /\ last' = [op |-> "file_list", sock |-> s, path |-> path, files |-> fs]
    /\ UNCHANGED <<scope, sessionVars, chatVars, editorVars, approvalVars>>
    /\ UNCHANGED marketVars

\* this.files[path] = content
PutFile(fm, path, content) ==
    [p \in DOMAIN fm \cup {path} |-> IF p = path THEN content ELSE fm[p]]

\* updateEditorTab(filePath): every non-welcome tab is removed and one active
\* tab is created for filePath.
updateEditorTab(filePath) ==
    /\ fileTab' = [file |-> filePath, name |-> StarSplit(LastSegment(filePath)),
                   active |-> TRUE]
    /\ welcomeActive' = FALSE

\* Variant: the file is opened whether or not the editor exists.
openFileInEditor_NoGuard(path, content) ==
    /\ currentFile' = path
    /\ files' = PutFile(files, path, content)
    /\ editorValue' = content
    /\ updateEditorTab(path)

\* openFileInEditor(path, content)
openFileInEditor(path, content) ==
    IF ~editor
    THEN UNCHANGED <<currentFile, files, editorValue, fileTab, welcomeActive>>
    ELSE /\ currentFile' = path
         /\ files' = PutFile(files, path, content)
         /\ editorValue' = content
         /\ updateEditorTab(path)

\* case 'file_content'
RecvFileContent(s, path, content) ==
    /\ Receives(s)
    /\ scope = "editor"
    /\ openFileInEditor(path, content)
    /\ UNCHANGED connVars
    /\ Transmit(<<>>)
    /\ console' = <<>>
    /\ last' = [op |-> "file_content", sock |-> s, path |-> path, content |-> content,
                dirtyBefore |-> (fileTab.file = path /\ Modified(fileTab)),
                editedBefore |-> (currentFile = path /\ path \in DOMAIN files
                                  /\ editorValue # files[path])]
    /\ UNCHANGED <<scope, sessionVars, chatVars, treeVars, editor, approvalVars>>
    /\ UNCHANGED marketVars

\* Variant: a request that arrives while the modal is shown is dropped.
showCommandApproval_KeepFirst(command, command_id) ==
    IF approvalModal
    THEN UNCHANGED <<commandPreview, approvalModal, currentCommandId>>
    ELSE /\ commandPreview' = command
         /\ approvalModal' = TRUE
         /\ currentCommandId' = command_id

\* showCommandApproval(data)
showCommandApproval(command, command_id) ==
    /\ commandPreview' = command
    /\ approvalModal' = TRUE
    /\ currentCommandId' = command_id

\* case 'command_approval_required'
RecvApprovalRequired(s, command, command_id) ==
    /\ Receives(s)
    /\ scope = "approval"
    /\ showCommandApproval(command, command_id)
    /\ UNCHANGED connVars
    /\ Transmit(<<>>)
    /\ console' = <<>>
    /\ last' = [op |-> "command_approval_required", sock |-> s,
                command |-> command, command_id |-> command_id,
                pendingBefore |-> approvalModal,
                commandBefore |-> commandPreview,
                idBefore |-> currentCommandId]
    /\ UNCHANGED <<scope, sessionVars, chatVars, treeVars, editorVars>>
    /\ UNCHANGED marketVars

\* The types handleWebSocketMessage has a case for, and types it has none for.
KnownTypes == {"session_joined", "user_message", "ai_response", "ai_typing",
               "error", "file_list", "file_content", "command_approval_required"}
OtherTypes == {"pong"}

\* What the console shows when an exception leaves the onmessage handler.
Uncaught == Log("error", "Uncaught TypeError")

\* Variant: a message of an unknown type is reported in the chat panel.
RecvUnknown_ReportsError(s, type) ==
    /\ Receives(s)
    /\ type \notin KnownTypes
    /\ transcript' = IF Len(transcript) < MaxTranscript
                     THEN addErrorMessage(transcript, <<"e">>)
                     ELSE <<>>
    /\ console' = <<Log("log", "Unknown message type:")>>
    /\ UNCHANGED connVars
    /\ Transmit(<<>>)
    /\ last' = [op |-> "unknown", sock |-> s, type |-> type, threw |-> FALSE]
    /\ UNCHANGED <<scope, sessionVars, messageCount, typing, chatInput,
                   treeVars, editorVars, approvalVars>>
    /\ UNCHANGED marketVars

\* default: a message whose type has no case is logged to the console.
RecvUnknown(s, type) ==
    /\ Receives(s)
    /\ type \notin KnownTypes
    /\ console' = <<Log("log", "Unknown message type:")>>
    /\ UNCHANGED connVars
    /\ Transmit(<<>>)
    /\ last' = [op |-> "unknown", sock |-> s, type |-> type, threw |-> FALSE]
    /\ UNCHANGED <<scope, sessionVars, chatVars, treeVars, editorVars, approvalVars>>
    /\ UNCHANGED marketVars

\* A message of a known type that has no data member: every case reads a
\* property of data before it writes anything, which throws a TypeError out
\* of the onmessage handler.
RecvWithoutData(s, type) ==
    /\ Receives(s)
    /\ scope = "approval"
    /\ type \in KnownTypes
    /\ console' = <<Uncaught>>
    /\ UNCHANGED connVars
    /\ Transmit(<<>>)
    /\ last' = [op |-> "malformed", sock |-> s, missing |-> "data", threw |-> TRUE]
    /\ UNCHANGED <<scope, sessionVars, chatVars, treeVars, editorVars, approvalVars>>
    /\ UNCHANGED marketVars

\* this.sessionId after it has been assigned a missing (undefined) member.
UndefinedSession == <<Undefined>>

\* case 'session_joined' with a data member that has no session_id:
\* this.sessionId becomes undefined, and undefined.substring throws.
RecvSessionJoinedWithoutId(s) ==
    /\ Receives(s)
    /\ scope = "approval"
    /\ sessionId' = UndefinedSession
    /\ UNCHANGED sessionIdText
    /\ console' = <<Uncaught>>
    /\ UNCHANGED connVars
    /\ Transmit(<<>>)
    /\ last' = [op |-> "malformed", sock |-> s, missing |-> "session_id",
                threw |-> TRUE]
    /\ UNCHANGED <<scope, chatVars, treeVars, editorVars, approvalVars>>
    /\ UNCHANGED marketVars

\* ------------------------------------------------------- user gestures

Whitespace == {" ", "\n"}

\* String.prototype.trim
RECURSIVE TrimStart(_)
TrimStart(t) ==
    IF t # <<>> /\ Head(t) \in Whitespace THEN TrimStart(Tail(t)) ELSE t

RECURSIVE TrimEnd(_)
TrimEnd(t) ==
    IF t # <<>> /\ t[Len(t)] \in Whitespace
    THEN TrimEnd(SubSeq(t, 1, Len(t) - 1)) ELSE t

Trim(t) == TrimEnd(TrimStart(t))

\* The user changes the text of the chat input box.
TypeChat(t) ==
    /\ Idle
    /\ scope = "chat"
    /\ chatInput' = t
    /\ UNCHANGED connVars
    /\ Transmit(<<>>)
    /\ console' = <<>>
    /\ last' = [op |-> "typeChat", text |-> t]
    /\ UNCHANGED <<scope, sessionVars, transcript, messageCount, typing,
                   treeVars, editorVars, approvalVars>>
    /\ UNCHANGED marketVars

\* Variant: the input is sent as typed, without trimming.
sendMessage_Untrimmed ==
    LET message == chatInput
    IN  IF message = <<>> \/ ~isConnected
        THEN /\ UNCHANGED chatInput
             /\ Transmit(<<>>)
        ELSE /\ chatInput' = <<>>
             /\ Transmit(sendWebSocketMessage(websocket, readyState', sessionId,
                                              "chat", [message |-> message]))

\* sendMessage(): Enter in the chat input, or the send button.
sendMessage ==
    LET message == Trim(chatInput)
    IN  IF message = <<>> \/ ~isConnected
        THEN /\ UNCHANGED chatInput
             /\ Transmit(<<>>)
        ELSE /\ chatInput' = <<>>
             /\ Transmit(sendWebSocketMessage(websocket, readyState', sessionId,
                                              "chat", [message |-> message]))

SendChat ==
    /\ Idle
    /\ scope = "chat"
    /\ UNCHANGED connVars
    /\ sendMessage
    /\ console' = <<>>
    /\ last' = [op |-> "sendMessage", input |-> chatInput]
    /\ UNCHANGED <<scope, sessionVars, transcript, messageCount, typing,
                   treeVars, editorVars, approvalVars>>
    /\ UNCHANGED marketVars

\* Variant: the counter is not refreshed after the messages are removed.
clearChat_KeepsCount ==
    /\ transcript' = <<>>
    /\ UNCHANGED messageCount

\* clearChat(): every message but the welcome message is removed.
clearChat ==
    /\ transcript' = <<>>
    /\ messageCount' = updateMessageCount(transcript')

ClearChat ==
    /\ Idle
    /\ clearChat
    /\ UNCHANGED connVars
    /\ Transmit(<<>>)
    /\ console' = <<>>
    /\ last' = [op |-> "clearChat", removed |-> Len(transcript),
                countBefore |-> messageCount]
    /\ UNCHANGED <<scope, sessionVars, typing, chatInput,
                   treeVars, editorVars, approvalVars>>
    /\ UNCHANGED marketVars

\* updateAIProvider(): the provider selector changes.
UpdateAIProvider ==
    /\ Idle
    /\ scope = "chat"
    /\ console' = <<Log("log", "Switching to AI provider:")>>
    /\ UNCHANGED connVars
    /\ Transmit(<<>>)
    /\ last' = [op |-> "updateAIProvider"]
    /\ UNCHANGED <<scope, sessionVars, chatVars, treeVars, editorVars, approvalVars>>
    /\ UNCHANGED marketVars

\* The click handler of the i-th entry of the file tree.
ClickTreeItem(i) ==
    /\ Idle
    /\ scope = "tree"
    /\ i \in 1..Len(fileTreeItems)
    /\ UNCHANGED connVars
    /\ LET file == fileTreeItems[i]
       IN  IF file.is_directory
           THEN Transmit(loadFileTree(websocket, readyState', sessionId, file.path))
           ELSE Transmit(openFile(websocket, readyState', sessionId, file.path))
    /\ console' = <<>>
    /\ last' = [op |-> "clickItem", file |-> fileTreeItems[i]]
    /\ UNCHANGED <<scope, sessionVars, chatVars, treeVars, editorVars, approvalVars>>
    /\ UNCHANGED marketVars

\* The click handler of the '..' entry, present when the tree was rendered
\* for a path other than '/workspaces'.
ClickParent ==
    /\ Idle
    /\ scope = "tree"
    /\ fileTreePath # NoFile
    /\ fileTreePath # WORKSPACES
    /\ UNCHANGED connVars
    /\ Transmit(loadFileTree(websocket, readyState', sessionId,
                             ParentPath(fileTreePath)))
    /\ console' = <<>>
    /\ last' = [op |-> "clickParent"]
    /\ UNCHANGED <<scope, sessionVars, chatVars, treeVars, editorVars, approvalVars>>
    /\ UNCHANGED marketVars

\* The callback of require(['vs/editor/editor.main']): Monaco has loaded and
\* the editor is created showing the welcome text.
EditorLoaded ==
    /\ Idle
    /\ scope = "editor"
    /\ ~editor
    /\ editor' = TRUE
    /\ editorValue' = WelcomeContent
    /\ UNCHANGED connVars
    /\ Transmit(<<>>)
    /\ console' = <<>>
    /\ last' = [op |-> "editorLoaded"]
    /\ UNCHANGED <<scope, sessionVars, chatVars, treeVars, currentFile, files,
                   fileTab, welcomeActive, approvalVars>>
    /\ UNCHANGED marketVars

\* markFileAsModified(filePath): the tab of filePath, if there is one, gets
\* a trailing '*' unless it has one.
markFileAsModified(tab, filePath) ==
    IF tab # NoTab /\ tab.file = filePath /\ ~EndsWithStar(tab.name)
    THEN [tab EXCEPT !.name = @ \o <<"*">>]
    ELSE tab

\* markFileAsSaved(filePath): the first '*' is removed from the name on the
\* tab of filePath.
markFileAsSaved(tab, filePath) ==
    IF tab # NoTab /\ tab.file = filePath
    THEN [tab EXCEPT !.name = RemoveFirstStar(@)]
    ELSE tab

\* The user edits the text in the editor: onDidChangeModelContent fires.
EditContent(c) ==
    /\ Idle
    /\ scope = "editor"
    /\ editor
    /\ c # editorValue
    /\ editorValue' = c
    /\ fileTab' = IF currentFile # NoFile /\ currentFile # Welcome
                  THEN markFileAsModified(fileTab, currentFile)
                  ELSE fileTab
    /\ UNCHANGED connVars
    /\ Transmit(<<>>)
    /\ console' = <<>>
    /\ last' = [op |-> "edit", content |-> c]
    /\ UNCHANGED <<scope, sessionVars, chatVars, treeVars, editor, currentFile,
                   files, welcomeActive, approvalVars>>
    /\ UNCHANGED marketVars

\* saveCurrentFile()
saveCurrentFile ==
    IF currentFile = NoFile \/ currentFile = Welcome \/ ~editor
    THEN UNCHANGED <<files, fileTab, transcript>>
    ELSE /\ files' = PutFile(files, currentFile, editorValue)
         /\ fileTab' = markFileAsSaved(fileTab, currentFile)
         /\ transcript' = addMessage(transcript, FileSavedText(currentFile),
                                     "assistant")

SaveFile ==
    /\ Idle
    /\ scope = "editor"
    /\ Len(transcript) < MaxTranscript
    /\ saveCurrentFile
    /\ UNCHANGED connVars
    /\ Transmit(<<>>)
    /\ console' = <<>>
    /\ last' = [op |-> "save", file |-> currentFile, content |-> editorValue,
                after |-> IF last.op = "file_content"
                          THEN [op |-> "file_content", path |-> last.path,
                                content |-> last.content]
                          ELSE [op |-> "other"]]
    /\ UNCHANGED <<scope, sessionVars, messageCount, typing, chatInput, treeVars,
                   editor, editorValue, currentFile, welcomeActive, approvalVars>>
    /\ UNCHANGED marketVars

\* createNewFile(): answer is what prompt('Enter filename:') returned.
createNewFile(answer) ==
    IF answer = PromptNull \/ answer = ""
    THEN UNCHANGED <<currentFile, files, editorValue, fileTab, welcomeActive>>
    ELSE openFileInEditor(NewFilePath(answer), "")

NewFile(answer) ==
    /\ Idle
    /\ scope = "editor"
    /\ createNewFile(answer)
    /\ UNCHANGED connVars
    /\ Transmit(<<>>)
    /\ console' = <<>>
    /\ last' = [op |-> "newFile", answer |-> answer]
    /\ UNCHANGED <<scope, sessionVars, chatVars, treeVars, editor, approvalVars>>
    /\ UNCHANGED marketVars

\* switchToFile(filePath): the click handler of the file's tab.
switchToFile(filePath) ==
    IF filePath \in DOMAIN files /\ files[filePath] # "" /\ editor
    THEN openFileInEditor(filePath, files[filePath])
    ELSE UNCHANGED <<currentFile, files, editorValue, fileTab, welcomeActive>>

ClickTab ==
    /\ Idle
    /\ scope = "editor"
    /\ fileTab # NoTab
    /\ switchToFile(fileTab.file)
    /\ UNCHANGED connVars
    /\ Transmit(<<>>)
    /\ console' = <<>>
    /\ last' = [op |-> "clickTab", file |-> fileTab.file]
    /\ UNCHANGED <<scope, sessionVars, chatVars, treeVars, editor, approvalVars>>
    /\ UNCHANGED marketVars

\* switchToWelcome(); the page has a welcome tab.
switchToWelcome ==
    /\ welcomeActive' = TRUE
    /\ editorValue' = IF editor THEN WelcomeContent ELSE editorValue
    /\ currentFile' = Welcome

\* closeTab(filePath): the click handler of the tab's close button.
closeTab(filePath) ==
    /\ fileTab' = IF fileTab.file = filePath THEN NoTab ELSE fileTab
    /\ switchToWelcome

CloseTab ==
    /\ Idle
    /\ scope = "editor"
    /\ fileTab # NoTab
    /\ closeTab(fileTab.file)
    /\ UNCHANGED connVars
    /\ Transmit(<<>>)
    /\ console' = <<>>
    /\ last' = [op |-> "closeTab", file |-> fileTab.file]
    /\ UNCHANGED <<scope, sessionVars, chatVars, treeVars, editor, files,
                   approvalVars>>
    /\ UNCHANGED marketVars

\* Variant: the request stays shown after a decision (as if it waited for
\* an acknowledgement).
handleCommandApproval_KeepsModal(decision, answer) ==
    /\ UNCHANGED approvalModal
    /\ console' = IF decision = "modify" /\ (answer = PromptNull \/ answer = "")
                  THEN <<>>
                  ELSE <<Log("log", "Command approval:")>>

\* handleCommandApproval(decision): a button of the approval modal; answer is
\* what prompt('Modify command:', ...) returns when it is asked.
handleCommandApproval(decision, answer) ==
    /\ approvalModal' = FALSE
    /\ console' = IF decision = "modify" /\ (answer = PromptNull \/ answer = "")
                  THEN <<>>
                  ELSE <<Log("log", "Command approval:")>>

ResolveApproval(decision, answer) ==
    /\ Idle
    /\ scope = "approval"
    /\ approvalModal
    /\ decision # "modify" => answer = PromptNull
    /\ handleCommandApproval(decision, answer)
    /\ UNCHANGED connVars
    /\ Transmit(<<>>)
    /\ last' = [op |-> "resolve", decision |-> decision, answer |-> answer]
    /\ UNCHANGED <<scope, sessionVars, chatVars, treeVars, editorVars,
                   commandPreview, currentCommandId>>
    /\ UNCHANGED marketVars

Next ==
    \/ \E s \in Sockets : SocketOpen(s)
    \/ \E s \in Sockets : SocketClosing(s)
    \/ \E s \in Sockets : SocketError(s)
    \/ \E s \in Sockets : SocketClose(s)
    \/ ReconnectTimer
    \/ \E s \in Sockets, sid \in SessionIds : RecvSessionJoined(s, sid)
    \/ \E s \in Sockets, m \in ChatTexts : RecvUserMessage(s, m)
    \/ \E s \in Sockets, m \in ChatTexts : RecvAiResponse(s, m)
    \/ \E s \in Sockets, show \in BOOLEAN : RecvAiTyping(s, show)
    \/ \E s \in Sockets, m \in ErrorTexts : RecvError(s, m)
    \/ \E s \in Sockets, p \in {WORKSPACES, DirA}, fs \in Listings : RecvFileList(s, p, fs)
    \/ \E s \in Sockets, p \in FilePaths, c \in ServerContents : RecvFileContent(s, p, c)
    \/ \E s \in Sockets, c \in Commands, id \in CommandIds : RecvApprovalRequired(s, c, id)
    \/ \E s \in Sockets, t \in OtherTypes : RecvUnknown(s, t)
    \/ \E s \in Sockets, t \in KnownTypes : RecvWithoutData(s, t)
    \/ \E s \in Sockets : RecvSessionJoinedWithoutId(s)
    \/ \E t \in InputTexts : TypeChat(t)
    \/ SendChat
    \/ ClearChat
    \/ UpdateAIProvider
    \/ \E i \in 1..Len(fileTreeItems) : ClickTreeItem(i)
    \/ ClickParent
    \/ EditorLoaded
    \/ \E c \in EditedContents : EditContent(c)
    \/ SaveFile
    \/ \E a \in FilenameAnswers : NewFile(a)
    \/ ClickTab
    \/ CloseTab
    \/ \E d \in {"approve", "reject", "modify"}, a \in ModifyAnswers :
         ResolveApproval(d, a)

Spec == Init /\ [][Next]_vars

\* The close event that follows an error event is dispatched in the same
\* task, and a timer armed by setTimeout expires: neither can be postponed
\* for ever.
PendingClose == \E s \in Sockets : closeEvent = s /\ SocketClose(s)

LiveSpec ==
    /\ Spec
    /\ WF_vars(PendingClose)
    /\ WF_vars(ReconnectTimer)


\* ------------------------------------------------------------ marketplace
\* The marketplace page is a program of its own: its globals and the part
\* of its DOM its purchase path writes. The workspace client takes no step.

steamVars == <<scope, connVars, sessionVars, chatVars, treeVars, editorVars,
               approvalVars, requested, inflight, sent, console, last>>

\* apiCall(endpoint, options) has been issued and awaits its response.
Request(kind, arg) == [kind |-> kind, arg |-> arg]

\* The requests left once the i-th has been answered.
Answered(i) == SubSeq(requests, 1, i - 1) \o SubSeq(requests, i + 1, Len(requests))

\* handleLogin(event), up to its await.
HandleLogin ==
    /\ Len(requests) < MaxRequests
    /\ loadingOverlay' = TRUE
    /\ requests' = Append(requests, Request("login", ""))
    /\ UNCHANGED <<currentUser, currentContent, modals, tokenCount, notice>>
    /\ UNCHANGED steamVars

\* handleLogin after its await; the server answers with the creator and the
\* balance it holds, or with an error.
LoginResponse(i, ok, balance) ==
    /\ i \in 1..Len(requests)
    /\ requests[i].kind = "login"
    /\ requests' = Answered(i)
    /\ IF ok
       THEN /\ currentUser' = <<[token_balance |-> balance]>>
            /\ tokenCount' = <<balance>>
            /\ modals' = modals \ {"loginModal"}
            /\ notice' = "Success"
       ELSE /\ notice' = "Login Failed"
            /\ UNCHANGED <<currentUser, tokenCount, modals>>
    /\ loadingOverlay' = FALSE
    /\ UNCHANGED currentContent
    /\ UNCHANGED steamVars

\* logout()
Logout ==
    /\ currentUser # NoUser
    /\ currentUser' = NoUser
    /\ notice' = "Logged Out"
    /\ UNCHANGED <<currentContent, requests, modals, loadingOverlay, tokenCount>>
    /\ UNCHANGED steamVars

\* showContentDetails(contentId), up to its await.
ShowContentDetails(content) ==
    /\ Len(requests) < MaxRequests
    /\ loadingOverlay' = TRUE
    /\ requests' = Append(requests, Request("details", content.content_id))
    /\ UNCHANGED <<currentUser, currentContent, modals, tokenCount, notice>>
    /\ UNCHANGED steamVars

\* showContentDetails after its await.
DetailsResponse(i, ok) ==
    /\ i \in 1..Len(requests)
    /\ requests[i].kind = "details"
    /\ requests' = Answered(i)
    /\ IF ok
       THEN /\ currentContent' =
                 <<CHOOSE c \in Catalog : c.content_id = requests[i].arg>>
            /\ modals' = modals \cup {"contentModal"}
            /\ UNCHANGED notice
       ELSE /\ notice' = "Error"
            /\ UNCHANGED <<currentContent, modals>>
    /\ loadingOverlay' = FALSE
    /\ UNCHANGED <<currentUser, tokenCount>>
    /\ UNCHANGED steamVars

\* processPurchaseWithTokens(), up to its await.
processPurchaseWithTokens ==
    /\ loadingOverlay' = TRUE
    /\ requests' = Append(requests, Request("purchase", "tokens"))
    /\ UNCHANGED <<currentUser, currentContent, modals, tokenCount, notice>>

\* showPaymentModal()
showPaymentModal ==
    IF currentUser[1].token_balance >= currentContent[1].token_price
    THEN processPurchaseWithTokens
    ELSE /\ notice' = "Insufficient Tokens"
         /\ modals' = modals \cup {"purchaseTokenModal"}
         /\ UNCHANGED <<currentUser, currentContent, requests, loadingOverlay,
                        tokenCount>>

\* purchaseContent(), up to its await: the button of the content modal.
PurchaseContent ==
    /\ currentContent # NoContent
    /\ Len(requests) < MaxRequests
    /\ IF currentUser = NoUser
       THEN /\ notice' = "Login Required"
            /\ modals' = (modals \ {"contentModal"}) \cup {"loginModal"}
            /\ UNCHANGED <<currentUser, currentContent, requests, loadingOverlay,
                           tokenCount>>
       ELSE IF currentContent[1].pricing_model = "free"
       THEN /\ loadingOverlay' = TRUE
            /\ requests' = Append(requests, Request("purchase", "free"))
            /\ UNCHANGED <<currentUser, currentContent, modals, tokenCount, notice>>
       ELSE showPaymentModal
    /\ UNCHANGED steamVars

\* purchaseContent / processPurchaseWithTokens after the await. A logout in
\* between makes the update of the balance throw, which the catch reports.
PurchaseResponse(i, ok) ==
    /\ i \in 1..Len(requests)
    /\ requests[i].kind = "purchase"
    /\ requests' = Answered(i)
    /\ IF ~ok \/ (requests[i].arg = "tokens" /\ currentUser = NoUser)
       THEN /\ notice' = "Error"
            /\ UNCHANGED <<currentUser, tokenCount, modals>>
       ELSE IF requests[i].arg = "free"
       THEN /\ notice' = "Success"
            /\ modals' = modals \ {"contentModal"}
            /\ UNCHANGED <<currentUser, tokenCount>>
       ELSE LET balance == currentUser[1].token_balance
                             - currentContent[1].token_price
            IN  /\ currentUser' = <<[token_balance |-> balance]>>
                /\ tokenCount' = <<balance>>
                /\ notice' = "Success"
                /\ modals' = modals \ {"contentModal"}
    /\ loadingOverlay' = FALSE
    /\ UNCHANGED currentContent
    /\ UNCHANGED steamVars

MarketNext ==
    \/ HandleLogin
    \/ \E i \in 1..MaxRequests, ok \in BOOLEAN, b \in LoginBalances :
         LoginResponse(i, ok, b)
    \/ Logout
    \/ \E c \in Catalog : ShowContentDetails(c)
    \/ \E i \in 1..MaxRequests, ok \in BOOLEAN : DetailsResponse(i, ok)
    \/ PurchaseContent
    \/ \E i \in 1..MaxRequests, ok \in BOOLEAN : PurchaseResponse(i, ok)

MarketInit == Init /\ scope = "chat"

MarketSpec == MarketInit /\ [][MarketNext]_vars

\* ------------------------------------------------------------- properties

IsPrefix(a, b) == Len(a) <= Len(b) /\ SubSeq(b, 1, Len(a)) = a

\* A socket that can still deliver an event.
Live(s) == readyState[s] \in {"CONNECTING", "OPEN", "CLOSING"} \/ closeEvent = s

\* Connection attempts under way: sockets that have not closed, and
\* reconnect timers that have not fired.
Attempts == Cardinality({ s \in Sockets : Live(s) }) + timers

\* A PendingApproval is outstanding: the approval modal is shown.
PendingApproval == approvalModal

\* The handler that just ran was given a command_approval_required while a
\* request with another identifier was outstanding.
SecondApproval ==
    /\ last.op = "command_approval_required"
    /\ last.pendingBefore
    /\ last.idBefore # last.command_id

\* C1: a file_list whose path is not the path of the most recently requested
\* directory is discarded: handling it leaves the file tree unchanged.
C1_StaleFileListDiscarded ==
    [][(last'.op = "file_list" /\ last'.path # requested)
         => UNCHANGED <<fileTreePath, fileTreeItems>>]_vars

\* C2: when command_approval_required(c2) is handled while a request with a
\* different identifier c1 is outstanding, the one PendingApproval held
\* afterwards is the later request: the command and command_id of c2.
C2_LaterApprovalHeld ==
    SecondApproval =>
        /\ PendingApproval
        /\ commandPreview = last.command
        /\ currentCommandId = last.command_id

C2_Witness ==
    /\ SecondApproval
    /\ last.commandBefore # last.command
    /\ currentCommandId = last.command_id
    /\ commandPreview = last.command

\* C3 as stated: while a PendingApproval is outstanding a second request with
\* a different identifier is rejected, and PendingApproval keeps the first
\* request's command and identifier.
C3_SecondApprovalRejected ==
    SecondApproval =>
        /\ commandPreview = last.commandBefore
        /\ currentCommandId = last.idBefore

\* C3 as amended: a second request with a different identifier that arrives
\* while a PendingApproval is outstanding replaces it; the first request's
\* identifier is no longer held and the request stays outstanding.
C3_SecondApprovalSupersedes ==
    [][(PendingApproval /\ last'.op = "command_approval_required"
          /\ last'.command_id # currentCommandId)
         => /\ PendingApproval'
            /\ currentCommandId' # currentCommandId
            /\ currentCommandId' = last'.command_id
            /\ commandPreview' = last'.command]_vars

C3_Witness ==
    /\ SecondApproval
    /\ PendingApproval
    /\ currentCommandId # last.idBefore
    /\ last.idBefore \in CommandIds

\* A handler that printed output and took the Transcript from before to
\* after surfaced a warning: on the console, or as a Transcript entry.
WarningSurfaced(output, before, after) ==
    \/ \E i \in 1..Len(output) : output[i].level \in {"warn", "error"}
    \/ after # before

\* C4: whenever command_approval_required arrives while another request is
\* unresolved, a warning is surfaced.
C4_SecondApprovalWarns ==
    [][(PendingApproval /\ last'.op = "command_approval_required")
         => WarningSurfaced(console', transcript, transcript')]_vars

\* C5: the Session identifier is present only while the Connection is
\* Connected.
C5_SessionOnlyWhileConnected ==
    sessionId # NoSession => isConnected

\* C6: at every moment exactly one connection attempt is under way (a socket
\* that has not closed, or a pending reconnect timer), never two; a close
\* leaves one timer and no socket, and the timer creates exactly one socket.
C6_OneConnectionAttempt ==
    /\ Attempts = 1
    /\ last.op = "close" => timers = 1 /\ \A s \in Sockets : ~Live(s)
    /\ last.op = "timer" =>
         /\ timers = 0
         /\ readyState[websocket] = "CONNECTING"
         /\ \A s \in Sockets : Live(s) => s = websocket

C6_Witness ==
    /\ last.op = "timer"
    /\ readyState[websocket] = "CONNECTING"
    /\ connectionStatus = "offline"
    /\ transcript # <<>>

\* C7: the close handler, the reconnect timer and the open handler leave the
\* open files, their contents, the active file and the Transcript unchanged.
C7_CloseKeepsFilesAndTranscript ==
    [][last'.op \in {"close", "timer", "open"}
         => UNCHANGED <<files, editorValue, currentFile, fileTab, transcript>>]_vars

C7_Witness ==
    /\ last.op = "open"
    /\ FileF \in DOMAIN files
    /\ currentFile = FileF
    /\ Modified(fileTab)
    /\ editorValue = "z"
    /\ transcript # <<>>

\* C8: after a transport close no approval request is pending.
C8_CloseDiscardsApproval ==
    last.op = "close" => ~PendingApproval /\ currentCommandId = Undefined

\* C9: every operation other than the clear action leaves the previous
\* Transcript as a prefix of the new one.
C9_TranscriptAppendOnly ==
    [][last'.op # "clearChat" => IsPrefix(transcript, transcript')]_vars

C9_Witness ==
    /\ Len(transcript) = 2
    /\ transcript[1].role = "error"
    /\ transcript[2].role = "assistant"
    /\ last.op = "save"

\* C10: after the clear action the Transcript is empty and the message
\* count is 0.
C10_ClearEmptiesTranscript ==
    last.op = "clearChat" => transcript = <<>> /\ messageCount = 0

C10_Witness ==
    /\ last.op = "clearChat"
    /\ last.removed = 2
    /\ last.countBefore > 0
    /\ transcript = <<>>
    /\ messageCount = 0

\* The OpenFile of path: it is the active file, shown in the editor under its
\* own tab, with the given synced content and dirty flag.
OpenFileIs(path, content, dirty) ==
    /\ path \in DOMAIN files
    /\ files[path] = content
    /\ currentFile = path
    /\ fileTab.file = path
    /\ Modified(fileTab) = dirty

\* C11: round trip: a save that directly follows the file_content that opened
\* the file (no local edit in between) leaves the OpenFile's content equal
\* to the received content and its dirty flag false.
C11_OpenSaveRoundTrip ==
    (last.op = "save" /\ last.after.op = "file_content"
       /\ last.file = last.after.path)
      => /\ OpenFileIs(last.after.path, last.after.content, FALSE)
         /\ editorValue = last.after.content

\* C13: a file_content for a file that is open with a local unsaved edit
\* (its tab marked modified) replaces the content and leaves the dirty flag
\* false.
C13_ContentOverwritesDirtyEdit ==
    (last.op = "file_content" /\ last.dirtyBefore /\ last.editedBefore)
      => /\ OpenFileIs(last.path, last.content, FALSE)
         /\ editorValue = last.content

\* C12: sendMessage emits a chat frame only if the trimmed input is
\* non-empty and the client is connected, and then it is the one frame, with
\* the trimmed text; with an empty or whitespace-only input, or while not
\* connected, nothing is emitted and the Transcript and the input are left
\* as they are.
C12_SendChatPreconditions ==
    [][last'.op = "sendMessage"
         => /\ sent' # <<>>
                => /\ Trim(chatInput) # <<>>
                   /\ isConnected
                   /\ sent' = << [sock |-> websocket, type |-> "chat",
                                  data |-> [message |-> Trim(chatInput)],
                                  session_id |-> sessionId] >>
            /\ (Trim(chatInput) = <<>> \/ ~isConnected)
                => /\ sent' = <<>>
                   /\ UNCHANGED <<transcript, messageCount, chatInput>>
            /\ UNCHANGED transcript]_vars

C12_Witness ==
    /\ last.op = "sendMessage"
    /\ last.input = <<" ", " ">>
    /\ isConnected
    /\ readyState[websocket] = "OPEN"
    /\ sent = <<>>
    /\ chatInput = <<" ", " ">>

\* Everything the application keeps, apart from the console.
appVars == <<connVars, sessionVars, chatVars, treeVars, editorVars, approvalVars>>

\* C14: a message of a type that has no case changes nothing (the
\* connection, the session, the file tree, the open files, the active file,
\* the Transcript and the pending approval stay as they are), emits no frame
\* and raises no error.
C14_UnknownTypeIgnored ==
    [][last'.op = "unknown"
         => /\ UNCHANGED appVars
            /\ sent' = <<>>
            /\ ~last'.threw
            /\ \A i \in 1..Len(console') : console'[i].level # "error"]_vars

C14_Witness ==
    /\ last.op = "unknown"
    /\ last.type = "pong"
    /\ isConnected
    /\ sessionId # NoSession
    /\ transcript # <<>>
    /\ sent = <<>>

\* C15: a message of a known type that lacks a required member is dropped:
\* no exception leaves the handler and nothing the application keeps changes.
C15_MalformedDropped ==
    [][last'.op = "malformed"
         => /\ ~last'.threw
            /\ UNCHANGED appVars]_vars

\* C16: the handler of every transport open emits exactly two frames on the
\* socket that opened: one join_session, then the list request for
\* '/workspaces'. No other handler emits a join_session, and no handler
\* emits anything on a socket that has not had its open event, so the join
\* is the first and the only join of its connection.
C16_JoinOncePerOpen ==
    [][/\ last'.op = "open"
           => sent' = << [sock |-> last'.sock, type |-> "join_session",
                          data |-> <<>>, session_id |-> sessionId],
                         [sock |-> last'.sock, type |-> "file_operation",
                          data |-> [operation |-> "list", path |-> WORKSPACES],
                          session_id |-> sessionId] >>
       /\ last'.op # "open"
           => \A i \in 1..Len(sent') :
                 /\ sent'[i].type # "join_session"
                 /\ readyState[sent'[i].sock] = "OPEN"]_vars

C16_Witness ==
    /\ last.op = "open"
    /\ sessionId \in SessionIds
    /\ transcript # <<>>
    /\ Len(sent) = 2
    /\ sent[1].type = "join_session"
    /\ sent[1].session_id = sessionId
    /\ IsListRequest(sent[2])

\* C17 as stated: after a file_content is handled, in whatever state it
\* arrived, there is an OpenFile for its path holding its content, and the
\* path is the active file.
C17_FileContentAlwaysOpens ==
    last.op = "file_content"
      => /\ last.path \in DOMAIN files
         /\ files[last.path] = last.content
         /\ currentFile = last.path

\* C17: once the editor has loaded, a file_content makes its path the active
\* file, with an OpenFile holding its content, shown in the editor under an
\* active tab; before the editor has loaded the message is ignored and the
\* open files, the active file, the editor and the tabs stay as they were.
C17_FileContentOpensOnceEditorLoaded ==
    [][last'.op = "file_content"
         => IF editor
            THEN /\ last'.path \in DOMAIN files'
                 /\ files'[last'.path] = last'.content
                 /\ currentFile' = last'.path
                 /\ editorValue' = last'.content
                 /\ fileTab'.file = last'.path
                 /\ fileTab'.active
            ELSE UNCHANGED editorVars]_vars

C17_Witness ==
    /\ last.op = "file_content"
    /\ ~editor
    /\ last.path \notin DOMAIN files
    /\ currentFile = NoFile
    /\ fileTab = NoTab

\* The last event was a resolution of the pending approval: approve, reject,
\* or modify with a non-empty replacement.
Resolved ==
    /\ last.op = "resolve"
    /\ last.decision = "modify" => last.answer \notin {PromptNull, ""}

\* Command identifier id is held as pending: the request showing it is
\* outstanding.
HeldAsPending(id) == PendingApproval /\ currentCommandId = id

\* C18: as soon as the handler of a resolution has run, no approval is
\* pending and no command identifier is held as pending; the handler waits
\* for nothing.
C18_ResolutionClearsPending ==
    Resolved => /\ ~PendingApproval
                /\ \A id \in CommandIds : ~HeldAsPending(id)

C18_Witness ==
    /\ Resolved
    /\ last.decision = "modify"
    /\ last.answer = "ls -l"
    /\ ~approvalModal
    /\ currentCommandId \in CommandIds

\* C19: each resolution emits exactly one frame, which carries the decision,
\* the identifier of the pending command and, for modify, the replacement.
C19_ResolutionEmitsOneMessage ==
    Resolved => /\ Len(sent) = 1
                /\ sent[1].data.decision = last.decision
                /\ sent[1].data.command_id = currentCommandId

\* C20: a transport error is handled as the error event followed, in the
\* same task, by the close event of the same socket. After the error handler
\* only that close event can run, and once it has run the client is
\* disconnected, shows "offline", and a reconnect timer is armed and free to
\* fire.
C20_ErrorLeadsToReconnect ==
    /\ last.op = "error"
         => /\ closeEvent = last.sock
            /\ ENABLED SocketClose(last.sock)
    /\ (last.op = "close" /\ last.afterError)
         => /\ ~isConnected
            /\ connectionStatus = "offline"
            /\ readyState[last.sock] = "CLOSED"
            /\ timers = 1
            /\ Idle

C20_Witness ==
    /\ last.op = "close"
    /\ last.afterError
    /\ sessionId \in SessionIds
    /\ timers = 1
    /\ ~isConnected
    /\ transcript # <<>>
    /\ transcript[Len(transcript)].text = ConnectionErrorText

\* A connection attempt is in progress; the client is disconnected and no
\* attempt is in progress.
Connecting == \E s \in Sockets : readyState[s] = "CONNECTING"
Disconnected == ~isConnected /\ ~Connecting

\* C21: the client never stops retrying. A disconnected client always has
\* the close event of its failed socket or a reconnect timer pending, and
\* (the timer being fair) every disconnected state is followed by a new
\* connection attempt, however many attempts have failed before.
C21_RetriesForever ==
    /\ [](Disconnected => (closeEvent # 0 \/ timers > 0))
    /\ Disconnected ~> Connecting

C21_Witness ==
    /\ Disconnected
    /\ timers = 1
    /\ last.op = "close"
    /\ last.afterError
    /\ connectionStatus = "offline"
    /\ Len(transcript) = 2
    /\ \A i \in 1..2 : transcript[i].text = ConnectionErrorText

\* The events whose handlers call sendWebSocketMessage.
Issuers == {"open", "sendMessage", "clickItem", "clickParent"}

\* C22: no frame is emitted on a socket that is not open, and what a step
\* emits is only what the handler of that step issues itself: a handler that
\* issues nothing emits nothing, and the open handler of a reconnect emits
\* its join and its list request and nothing left over from earlier, so a
\* send that was dropped is never transmitted later.
C22_AtMostOnceNoQueue ==
    [][/\ \A i \in 1..Len(sent') :
             /\ sent'[i].sock = websocket'
             /\ readyState'[sent'[i].sock] = "OPEN"
       /\ last'.op \notin Issuers => sent' = <<>>
       /\ last'.op = "open"
            => \A i \in 1..Len(sent') :
                  \/ sent'[i].type = "join_session"
                  \/ IsListRequest(sent'[i]) /\ sent'[i].data.path = WORKSPACES
       /\ last'.op = "sendMessage"
            => /\ Len(sent') <= 1
               /\ \A i \in 1..Len(sent') :
                     /\ sent'[i].type = "chat"
                     /\ sent'[i].data.message = Trim(chatInput)
       /\ last'.op = "clickItem"
            => /\ Len(sent') <= 1
               /\ \A i \in 1..Len(sent') :
                     /\ sent'[i].type = "file_operation"
                     /\ sent'[i].data.path = last'.file.path
       /\ last'.op = "clickParent"
            => /\ Len(sent') <= 1
               /\ \A i \in 1..Len(sent') :
                     /\ IsListRequest(sent'[i])
                     /\ sent'[i].data.path = ParentPath(fileTreePath)]_vars

C22_Witness ==
    /\ last.op = "clickItem"
    /\ ~last.file.is_directory
    /\ ~isConnected
    /\ readyState[websocket] = "CONNECTING"
    /\ sent = <<>>

\* C23: handling a transport error event or a transport close event leaves
\* the Transcript as it is; the failure shows in the status indicator only.
C23_TransportFailureNotInTranscript ==
    [][last'.op \in {"error", "close"} => UNCHANGED transcript]_vars

\* The entries a step has appended to the Transcript.
Appended(before, after) ==
    IF IsPrefix(before, after)
    THEN { after[i] : i \in (Len(before) + 1)..Len(after) }
    ELSE {}

\* C24: an entry of role user is appended only by the handler of an inbound
\* user_message, and an entry of role assistant only by the handler of an
\* inbound ai_response; no local action appends either.
C24_TranscriptOnlyFromServer ==
    [][\A e \in Appended(transcript, transcript') :
          /\ e.role = "user" => last'.op = "user_message"
          /\ e.role = "assistant" => last'.op = "ai_response"]_vars

\* File path is open with a local edit: it is the active file, the text in
\* the editor differs from its synced content, and its tab is marked
\* modified.
LocallyEdited(path) ==
    /\ path \in DOMAIN files
    /\ currentFile = path
    /\ editor
    /\ editorValue # files[path]
    /\ fileTab.file = path
    /\ Modified(fileTab)

\* The step is an explicit save of path, or a file_content for path.
SavesOrOverwrites(path, event) ==
    \/ event.op = "save" /\ event.file = path
    \/ event.op = "file_content" /\ event.path = path

\* C25: a file that is open with a local edit stays marked modified through
\* every event other than a save of that file and a file_content for its
\* path.
C25_DirtyUntilSaved ==
    [][\A path \in FilePaths :
          (LocallyEdited(path) /\ ~SavesOrOverwrites(path, last'))
            => /\ fileTab'.file = path
               /\ Modified(fileTab')]_vars

\* C26: the frames of the open handler, which are the first of a connection
\* and precede any session_joined on it, carry no session identifier; after
\* a reconnect they do not carry the identifier of the earlier connection.
C26_NoSessionIdBeforeJoined ==
    [][last'.op = "open"
         => \A i \in 1..Len(sent') : sent'[i].session_id = NoSession]_vars

\* C27: whenever sendMessage clears the chat input, a chat frame carrying
\* the text is emitted in the same step.
C27_ClearedInputWasSent ==
    [][(last'.op = "sendMessage" /\ chatInput # <<>> /\ chatInput' = <<>>)
         => \E i \in 1..Len(sent') :
               /\ sent'[i].type = "chat"
               /\ sent'[i].data.message = Trim(chatInput)]_vars

\* The step makes another file the active one, or closes the tab.
Deactivates(path, event) ==
    \/ event.op = "file_content" /\ event.path # path
    \/ event.op = "newFile" /\ event.answer \notin {PromptNull, ""}
         /\ NewFilePath(event.answer) # path
    \/ event.op = "closeTab"

\* C28: when a file that is open with a local edit stops being the active
\* file, its edited text is still held: as the file's content in memory, or
\* in the editor.
C28_EditsSurviveDeactivation ==
    [][\A path \in FilePaths :
          (LocallyEdited(path) /\ Deactivates(path, last'))
            => /\ path \in DOMAIN files'
               /\ \/ files'[path] = editorValue
                  \/ currentFile' = path /\ editorValue' = editorValue]_vars

\* C29: a modify decision whose replacement is empty or cancelled resolves
\* nothing: no frame is emitted and the approval stays pending and shown,
\* with the same command and the same identifier.
C29_EmptyModifyKeepsPending ==
    [][(last'.op = "resolve" /\ last'.decision = "modify"
          /\ last'.answer \in {PromptNull, ""})
         => /\ sent' = <<>>
            /\ PendingApproval'
            /\ UNCHANGED <<commandPreview, currentCommandId>>]_vars

\* C30: the token balance the marketplace page holds for the logged-in user
\* is never negative, whatever the order in which purchase requests are
\* issued and answered.
C30_BalanceNeverNegative ==
    currentUser # NoUser => currentUser[1].token_balance >= 0

=============================================================================
